---- MODULE Spec2Model ----
(***************************************************************************)
(* ClashTUI (src/src/main.rs): the interactive session (struct App and the *)
(* key dispatch of run_tui) running beside the traffic thread that main    *)
(* spawns.  The two threads share one crossbeam channel.                   *)
(*                                                                         *)
(* Rust values are written as follows.  Option<T> is a set with at most    *)
(* one element (None == {}, Some(x) == {x}).  Result<T> is a record        *)
(* [ok |-> TRUE, val |-> v] or [ok |-> FALSE, err |-> e].  A String that    *)
(* is only compared for equality is a TLA+ string; a String that is        *)
(* ordered (sort, cmp) is ordered by its bytes, given by Utf8.  A String   *)
(* built by format! is the sequence of its pieces, numbers rendered by     *)
(* Display.                                                                *)
(***************************************************************************)
EXTENDS Integers, Sequences, FiniteSets, TLC

VARIABLES
    app,      \* struct App (main.rs 302-330), without the client and the receiver
    chan,     \* the samples queued in the crossbeam channel, oldest first
    tpc,      \* position of the traffic thread in its loop (main.rs 1013-1026)
    pc,       \* position of run_tui (main.rs 1091-1220)
    term,     \* the terminal: raw mode, alternate screen, run_tui's result
    last,     \* the event run_tui handled since the last draw, how its daemon calls ended,
              \* and how many samples its drain received (counted up to the bound)
    pub,      \* the latest samples the traffic thread sent since the last completed drain
    daemon,   \* the answers the daemon behind the controller address can give in this run
    out       \* what main has printed on stdout, line by line

vars == <<app, chan, tpc, pc, term, last, pub, daemon, out>>

----------------------------------------------------------------------------
(* Bounds of the model *)

\* the traffic thread sends while fewer than this many samples are queued in
\* the channel, and as many of the samples it sent are remembered: MaxChan
\* beside a busy stream, MaxChanQuiet beside a quiet one
MaxChan == 3
MaxChanQuiet == 1

----------------------------------------------------------------------------
(* Option and Result *)

None == {}
Some(x) == {x}
Unwrap(o) == CHOOSE x \in o : TRUE
UnwrapOr(o, d) == IF o = None THEN d ELSE Unwrap(o)

Ok(v) == [ok |-> TRUE, val |-> v]
Err(e) == [ok |-> FALSE, err |-> e]

\* Vec::get(idx) is Some exactly for idx < len; Vec indices start at 0
InRange(idx, v) == idx >= 0 /\ idx < Len(v)
At(v, idx) == v[idx + 1]

\* usize::saturating_sub(1)
saturating_sub1(n) == IF n = 0 THEN 0 ELSE n - 1

----------------------------------------------------------------------------
(* Strings: bytes, Ord, Display *)

Utf8 ==
    ("G1" :> <<71, 49>>) @@ ("G2" :> <<71, 50>>) @@ ("G3" :> <<71, 51>>) @@
    ("R1" :> <<82, 49>>) @@ ("p1" :> <<112, 49>>) @@ ("p2" :> <<112, 50>>) @@
    ("09:59Z" :> <<48, 57, 58, 53, 57, 90>>) @@
    ("10:00Z" :> <<49, 48, 58, 48, 48, 90>>) @@
    ("10:00:30Z" :> <<49, 48, 58, 48, 48, 58, 51, 48, 90>>) @@
    ("Selector" :> <<83, 101, 108, 101, 99, 116, 111, 114>>) @@
    ("URLTest" :> <<85, 82, 76, 84, 101, 115, 116>>) @@
    ("Fallback" :> <<70, 97, 108, 108, 98, 97, 99, 107>>) @@
    ("DOMAIN-SUFFIX" :> <<68, 79, 77, 65, 73, 78, 45, 83, 85, 70, 70, 73, 88>>) @@
    ("MATCH" :> <<77, 65, 84, 67, 72>>) @@
    ("example.com" :> <<101, 120, 97, 109, 112, 108, 101, 46, 99, 111, 109>>) @@
    ("" :> <<>>)

\* <[u8] as Ord>::cmp: the first differing byte decides, else the shorter is less
RECURSIVE BytesLess(_, _)
BytesLess(x, y) ==
    IF y = <<>> THEN FALSE
    ELSE IF x = <<>> THEN TRUE
    ELSE IF Head(x) # Head(y) THEN Head(x) < Head(y)
    ELSE BytesLess(Tail(x), Tail(y))

StrLess(s, t) == BytesLess(Utf8[s], Utf8[t])

Digit == <<"0", "1", "2", "3", "4", "5", "6", "7", "8", "9">>

\* Display of an unsigned integer
RECURSIVE Display(_)
Display(n) == IF n < 10 THEN <<Digit[n + 1]>> ELSE Display(n \div 10) \o <<Digit[(n % 10) + 1]>>

\* Display of an i64
DisplayInt(n) == IF n < 0 THEN <<"-">> \o Display(0 - n) ELSE Display(n)

\* {:<w} of an ASCII string: the string, and the number of spaces behind it
PadRight(x, w) == <<x, IF Len(Utf8[x]) < w THEN w - Len(Utf8[x]) ELSE 0>>

\* {:w} of an unsigned integer: the number of spaces before it, and its digits
PadLeft(n, w) == <<IF Len(Display(n)) < w THEN w - Len(Display(n)) ELSE 0, Display(n)>>

KB == 1024
MB == 1024 * KB
GB == 1024 * MB

\* {:.2} of bytes / unit: two decimals, rounded to nearest, ties to even
Fixed2(bytes, unit) ==
    LET q == (bytes * 100) \div unit
        r == (bytes * 100) % unit
        h == IF 2 * r > unit \/ (2 * r = unit /\ q % 2 = 1) THEN q + 1 ELSE q
        f == h % 100
    IN  Display(h \div 100) \o <<".">> \o (IF f < 10 THEN <<"0">> ELSE <<>>) \o Display(f)

format_bytes(bytes) ==
    IF bytes >= GB THEN Fixed2(bytes, GB) \o <<" GB">>
    ELSE IF bytes >= MB THEN Fixed2(bytes, MB) \o <<" MB">>
    ELSE IF bytes >= KB THEN Fixed2(bytes, KB) \o <<" KB">>
    ELSE Display(bytes) \o <<" B">>

----------------------------------------------------------------------------
(* Sorting *)

Min(S) == CHOOSE x \in S : \A y \in S : x = y \/ StrLess(x, y)

\* Vec<String>::sort of distinct names: ascending by bytes
RECURSIVE SortNames(_)
SortNames(S) == IF S = {} THEN <<>> ELSE <<Min(S)>> \o SortNames(S \ {Min(S)})

\* one step of a stable sort by |a, b| b.start.cmp(&a.start): c goes behind
\* every element that does not start earlier than c
RECURSIVE InsertByStartDesc(_, _)
InsertByStartDesc(c, sorted) ==
    IF sorted = <<>> THEN <<c>>
    ELSE IF StrLess(Head(sorted).start, c.start) THEN <<c>> \o sorted
    ELSE <<Head(sorted)>> \o InsertByStartDesc(c, Tail(sorted))

RECURSIVE SortByStartDesc(_)
SortByStartDesc(v) ==
    IF v = <<>> THEN <<>>
    ELSE InsertByStartDesc(v[Len(v)], SortByStartDesc(SubSeq(v, 1, Len(v) - 1)))

----------------------------------------------------------------------------
(* What the daemon can answer *)

Leaf(name, type, history) ==
    [name |-> name, proxy_type |-> type, all |-> <<>>, now |-> None, history |-> history]

GroupOf(name, type, all, now) ==
    [name |-> name, proxy_type |-> type, all |-> all, now |-> now, history |-> <<>>]

\* GET /proxies: HashMap<String, Proxy>, a function from names to proxies
SnapNone == [n \in {} |-> Leaf(n, "Direct", <<>>)]

SnapOne ==
    ("G1" :> GroupOf("G1", "Selector", <<"p1", "p2">>, Some("p1"))) @@
    ("R1" :> GroupOf("R1", "Relay", <<"p1">>, None)) @@
    ("p1" :> Leaf("p1", "Shadowsocks", <<>>)) @@
    ("p2" :> Leaf("p2", "Vmess", <<>>))

SnapThree ==
    ("G3" :> GroupOf("G3", "Fallback", <<>>, None)) @@
    ("G2" :> GroupOf("G2", "URLTest", <<"p2">>, Some("p2"))) @@
    ("G1" :> GroupOf("G1", "Selector", <<"p1", "p2">>, Some("p2"))) @@
    ("p1" :> Leaf("p1", "Shadowsocks", <<120, 80>>)) @@
    ("p2" :> Leaf("p2", "Vmess", <<>>))

Snapshots == {SnapNone, SnapOne, SnapThree}

RuleOf(type, payload, proxy) == [rule_type |-> type, payload |-> payload, proxy |-> proxy]

\* GET /rules
RuleLists ==
    { <<>>,
      <<RuleOf("DOMAIN-SUFFIX", "example.com", "G1"), RuleOf("MATCH", "", "G2")>> }

ConnOf(id, start) == [id |-> id, start |-> start]

\* GET /connections
ConnResponses ==
    { [downloadTotal |-> 0, uploadTotal |-> 0, connections |-> <<>>],
      [downloadTotal |-> 1536, uploadTotal |-> 512,
       connections |-> <<ConnOf("c1", "09:59Z"), ConnOf("c2", "10:00Z")>>] }

\* GET /configs
ConfigModes == {"Rule", "rule"}

\* GET /proxies/{name}/delay: a 2xx answer with its delay, or another status
DelayAnswers ==
    { [success |-> TRUE, delay |-> 50], [success |-> TRUE, delay |-> 0],
      [success |-> FALSE, delay |-> 0] }

\* the /traffic stream
Samples == {[up |-> 1, down |-> 10], [up |-> 2, down |-> 20]}

\* a daemon whose lists stay as they are between fetches, beside a quiet
\* traffic stream
DaemonQuiet ==
    [ snapshots |-> {SnapOne}, rule_lists |-> {<<RuleOf("MATCH", "", "G1")>>},
      conn_responses |-> {[downloadTotal |-> 1536, uploadTotal |-> 512,
                           connections |-> <<ConnOf("c1", "09:59Z")>>]},
      config_modes |-> {"Rule"}, delays |-> DelayAnswers,
      samples |-> {[up |-> 1, down |-> 10]}, burst |-> MaxChanQuiet ]

\* the same daemon beside a busy traffic stream
DaemonStream ==
    [DaemonQuiet EXCEPT !.config_modes = ConfigModes, !.samples = Samples, !.burst = MaxChan]

\* a daemon whose groups come and go and whose members have been measured
DaemonSelect == [DaemonQuiet EXCEPT !.snapshots = {SnapOne, SnapThree}]

\* a daemon whose proxies, rules and connections change between fetches
DaemonLists ==
    [DaemonQuiet EXCEPT !.snapshots = Snapshots, !.rule_lists = RuleLists,
                        !.conn_responses = ConnResponses]

\* a daemon whose connections come in no order of start, two of them started
\* together and one with seconds in its timestamp
DaemonCli ==
    [DaemonLists EXCEPT !.conn_responses = ConnResponses \cup
        { [downloadTotal |-> 2097152, uploadTotal |-> 1023,
           connections |-> <<ConnOf("c1", "10:00:30Z"), ConnOf("c2", "09:59Z"),
                             ConnOf("c3", "10:00Z"), ConnOf("c4", "09:59Z")>>] }]

\* the methods of ClashClient: what each can return
Results(vals, err) == {Ok(v) : v \in vals} \cup {Err(err)}

get_proxies == Results(daemon.snapshots, "Failed to fetch proxies")
get_rules == Results(daemon.rule_lists, "Failed to fetch rules")
get_config == Results(daemon.config_modes, "Failed to fetch config")
get_connections == Results(daemon.conn_responses, "Failed to fetch connections")
get_version == Results({"v1.18.0"}, "Failed to fetch version")
select_proxy_result == Results({"unit"}, "Failed to select proxy")
test_delay ==
    {Ok(IF answer.success THEN answer.delay ELSE -1) : answer \in daemon.delays}
    \cup {Err("Failed to test delay")}
update_mode == Results({"unit"}, "Failed to update config")

----------------------------------------------------------------------------
(* struct App and its methods, as functions from App to App.  The answer   *)
(* of each daemon call a method makes is a parameter.                      *)

\* App::new before its refresh_data
AppNew ==
    [ current_tab |-> "Proxies",
      groups |-> <<>>, group_state |-> None,
      proxies |-> <<>>, proxy_state |-> None,
      current_group |-> None,
      rules |-> <<>>, rule_state |-> None,
      conns |-> <<>>, conn_state |-> None,
      status |-> <<"Press ? for help">>,
      traffic |-> [up |-> 0, down |-> 0],
      mode |-> "Unknown",
      show_help |-> FALSE,
      focus |-> 0 ]

IsGroupKind(p) == p.proxy_type = "Selector" \/ p.proxy_type = "URLTest" \/ p.proxy_type = "Fallback"

\* the delay shown for a member: the last entry of its own history, else -1
DelayOf(all_proxies, name) ==
    IF name \in DOMAIN all_proxies /\ all_proxies[name].history # <<>>
    THEN all_proxies[name].history[Len(all_proxies[name].history)]
    ELSE -1

\* variant of update_proxies_for_group: the members are added to those shown
update_proxies_for_group_appending(a, all_proxies) ==
    IF a.group_state = None THEN a
    ELSE IF ~InRange(Unwrap(a.group_state), a.groups) THEN a
    ELSE LET group_name == At(a.groups, Unwrap(a.group_state)) IN
         IF group_name \notin DOMAIN all_proxies THEN a
         ELSE LET group == all_proxies[group_name]
                  members == [i \in 1..Len(group.all) |->
                                 <<group.all[i], DelayOf(all_proxies, group.all[i])>>]
              IN  [a EXCEPT !.current_group = Some(group),
                            !.proxies = @ \o members,
                            !.proxy_state = IF members # <<>> /\ a.proxy_state = None
                                            THEN Some(0) ELSE @]

\* variant of update_proxies_for_group: the members are replaced, the record
\* of the current group is set only when there was none
update_proxies_for_group_stale_group(a, all_proxies) ==
    IF a.group_state = None THEN a
    ELSE IF ~InRange(Unwrap(a.group_state), a.groups) THEN a
    ELSE LET group_name == At(a.groups, Unwrap(a.group_state)) IN
         IF group_name \notin DOMAIN all_proxies THEN a
         ELSE LET group == all_proxies[group_name]
                  members == [i \in 1..Len(group.all) |->
                                 <<group.all[i], DelayOf(all_proxies, group.all[i])>>]
              IN  [a EXCEPT !.current_group = IF @ = None THEN Some(group) ELSE @,
                            !.proxies = members,
                            !.proxy_state = IF members # <<>> /\ a.proxy_state = None
                                            THEN Some(0) ELSE @]

update_proxies_for_group(a, all_proxies) ==
    IF a.group_state = None THEN a
    ELSE IF ~InRange(Unwrap(a.group_state), a.groups) THEN a
    ELSE LET group_name == At(a.groups, Unwrap(a.group_state)) IN
         IF group_name \notin DOMAIN all_proxies THEN a
         ELSE LET group == all_proxies[group_name]
                  members == [i \in 1..Len(group.all) |->
                                 <<group.all[i], DelayOf(all_proxies, group.all[i])>>]
              IN  [a EXCEPT !.current_group = Some(group),
                            !.proxies = members,
                            !.proxy_state = IF members # <<>> /\ a.proxy_state = None
                                            THEN Some(0) ELSE @]

\* variant of refresh_proxies: a fetch that succeeds puts the focus on the groups
refresh_proxies_refocusing(a, resp) ==
    IF resp.ok
    THEN LET names == SortNames({n \in DOMAIN resp.val : IsGroupKind(resp.val[n])})
             a1 == [a EXCEPT !.groups = names,
                             !.focus = 0,
                             !.group_state = IF names # <<>> /\ a.group_state = None
                                             THEN Some(0) ELSE @]
             a2 == update_proxies_for_group(a1, resp.val)
         IN  [a2 EXCEPT !.status = <<"Loaded ">> \o Display(Len(names)) \o <<" groups">>]
    ELSE [a EXCEPT !.status = <<"Error: ", resp.err>>]

refresh_proxies(a, resp) ==
    IF resp.ok
    THEN LET names == SortNames({n \in DOMAIN resp.val : IsGroupKind(resp.val[n])})
             a1 == [a EXCEPT !.groups = names,
                             !.group_state = IF names # <<>> /\ a.group_state = None
                                             THEN Some(0) ELSE @]
             a2 == update_proxies_for_group(a1, resp.val)
         IN  [a2 EXCEPT !.status = <<"Loaded ">> \o Display(Len(names)) \o <<" groups">>]
    ELSE [a EXCEPT !.status = <<"Error: ", resp.err>>]

\* variant of refresh_rules: a failed fetch clears the rules
refresh_rules_clearing(a, resp) ==
    IF resp.ok
    THEN [a EXCEPT !.rules = resp.val,
                   !.rule_state = IF resp.val # <<>> /\ a.rule_state = None
                                  THEN Some(0) ELSE @,
                   !.status = <<"Loaded ">> \o Display(Len(resp.val)) \o <<" rules">>]
    ELSE [a EXCEPT !.rules = <<>>, !.rule_state = None, !.status = <<"Error: ", resp.err>>]

refresh_rules(a, resp) ==
    IF resp.ok
    THEN [a EXCEPT !.rules = resp.val,
                   !.rule_state = IF resp.val # <<>> /\ a.rule_state = None
                                  THEN Some(0) ELSE @,
                   !.status = <<"Loaded ">> \o Display(Len(resp.val)) \o <<" rules">>]
    ELSE [a EXCEPT !.status = <<"Error: ", resp.err>>]

\* variant of refresh_conns: the connections are kept in the order fetched
refresh_conns_unsorted(a, resp) ==
    IF resp.ok
    THEN LET fetched == resp.val.connections IN
         [a EXCEPT !.conns = fetched,
                   !.conn_state = IF fetched # <<>> /\ a.conn_state = None
                                  THEN Some(0) ELSE @,
                   !.status = <<"Loaded ">> \o Display(Len(fetched))
                              \o <<" connections. Up: ">> \o format_bytes(resp.val.uploadTotal)
                              \o <<", Down: ">> \o format_bytes(resp.val.downloadTotal)]
    ELSE [a EXCEPT !.status = <<"Error: ", resp.err>>]

refresh_conns(a, resp) ==
    IF resp.ok
    THEN LET sorted == SortByStartDesc(resp.val.connections) IN
         [a EXCEPT !.conns = sorted,
                   !.conn_state = IF sorted # <<>> /\ a.conn_state = None
                                  THEN Some(0) ELSE @,
                   !.status = <<"Loaded ">> \o Display(Len(sorted))
                              \o <<" connections. Up: ">> \o format_bytes(resp.val.uploadTotal)
                              \o <<", Down: ">> \o format_bytes(resp.val.downloadTotal)]
    ELSE [a EXCEPT !.status = <<"Error: ", resp.err>>]

\* variant of refresh_mode: a failed fetch forgets the mode
refresh_mode_forgetting(a, config) ==
    IF config.ok THEN [a EXCEPT !.mode = config.val] ELSE [a EXCEPT !.mode = "Unknown"]

\* refresh_data, first statement: the mode of GET /configs, if it answered
refresh_mode(a, config) == IF config.ok THEN [a EXCEPT !.mode = config.val] ELSE a

\* variant of receive_traffic: the sample is taken off the queue and dropped
receive_traffic_dropped(a, traffic) == a

\* refresh_data, the body of the while loop: one sample received
receive_traffic(a, traffic) == [a EXCEPT !.traffic = traffic]

\* the requests the methods send: the path is the sequence of the pieces of
\* its format! string
Request(method, path, body) == <<method, path, body>>
Call(method, path, body, resp) == [req |-> Request(method, path, body), ok |-> resp.ok]

\* test_delay: the request, and the delay it returned if it returned one.
\* The names of the model are unreserved characters, which urlencoding::encode
\* leaves as they are; the url is the one test_selected_delay passes, encoded.
DelayCall(proxy, resp) ==
    [ req |-> Request("GET",
                      <<"/proxies/", proxy, "/delay?url=",
                        "http%3A%2F%2Fwww.gstatic.com%2Fgenerate_204", "&timeout=">>
                      \o Display(5000),
                      ""),
      ok |-> resp.ok,
      delay |-> IF resp.ok THEN Some(resp.val) ELSE None ]

\* select_proxy sends only with a current group and a member under the cursor
CanSelect(a) ==
    a.current_group # None /\ a.proxy_state # None /\ InRange(Unwrap(a.proxy_state), a.proxies)

\* variant of select_proxy: the member is recorded as active before the
\* daemon has confirmed it
select_proxy_assuming(a, sent, resp) ==
    IF ~CanSelect(a) THEN a
    ELSE LET group == Unwrap(a.current_group)
             proxy_name == At(a.proxies, Unwrap(a.proxy_state))[1]
             a1 == [a EXCEPT !.current_group = Some([group EXCEPT !.now = Some(proxy_name)])]
         IN  IF sent.ok
             THEN refresh_proxies(
                      [a1 EXCEPT !.status = <<"Selected: ", group.name, " -> ", proxy_name>>],
                      resp)
             ELSE [a1 EXCEPT !.status = <<"Error selecting proxy: ", sent.err>>]

select_proxy(a, sent, resp) ==
    IF ~CanSelect(a) THEN a
    ELSE LET group == Unwrap(a.current_group)
             proxy_name == At(a.proxies, Unwrap(a.proxy_state))[1]
         IN  IF sent.ok
             THEN refresh_proxies(
                      [a EXCEPT !.status = <<"Selected: ", group.name, " -> ", proxy_name>>],
                      resp)
             ELSE [a EXCEPT !.status = <<"Error selecting proxy: ", sent.err>>]

CanTest(a) == a.proxy_state # None /\ InRange(Unwrap(a.proxy_state), a.proxies)

\* variant of test_selected_delay: a delay of 0 counts as measured
test_selected_delay_zero_ok(a, resp) ==
    IF ~CanTest(a) THEN a
    ELSE LET proxy_idx == Unwrap(a.proxy_state)
             proxy_name == At(a.proxies, proxy_idx)[1]
         IN  IF resp.ok
             THEN IF resp.val >= 0
                  THEN [a EXCEPT !.status = <<proxy_name, ": ">> \o DisplayInt(resp.val) \o <<"ms">>,
                                 !.proxies[proxy_idx + 1][2] = resp.val]
                  ELSE [a EXCEPT !.status = <<proxy_name, ": timeout">>]
             ELSE [a EXCEPT !.status = <<"Error testing delay: ", resp.err>>]

\* variant of test_selected_delay: the delay is written to the first member
test_selected_delay_first(a, resp) ==
    IF ~CanTest(a) THEN a
    ELSE LET proxy_idx == Unwrap(a.proxy_state)
             proxy_name == At(a.proxies, proxy_idx)[1]
         IN  IF resp.ok
             THEN IF resp.val > 0
                  THEN [a EXCEPT !.status = <<proxy_name, ": ">> \o DisplayInt(resp.val) \o <<"ms">>,
                                 !.proxies[1][2] = resp.val]
                  ELSE [a EXCEPT !.status = <<proxy_name, ": timeout">>]
             ELSE [a EXCEPT !.status = <<"Error testing delay: ", resp.err>>]

test_selected_delay(a, resp) ==
    IF ~CanTest(a) THEN a
    ELSE LET proxy_idx == Unwrap(a.proxy_state)
             proxy_name == At(a.proxies, proxy_idx)[1]
         IN  IF resp.ok
             THEN IF resp.val > 0
                  THEN [a EXCEPT !.status = <<proxy_name, ": ">> \o DisplayInt(resp.val) \o <<"ms">>,
                                 !.proxies[proxy_idx + 1][2] = resp.val]
                  ELSE [a EXCEPT !.status = <<proxy_name, ": timeout">>]
             ELSE [a EXCEPT !.status = <<"Error testing delay: ", resp.err>>]

\* toggle_mode, the match on self.mode
new_mode(mode) ==
    CASE mode = "Rule" -> "Global"
      [] mode = "Global" -> "Direct"
      [] OTHER -> "Rule"

\* variant of toggle_mode: the mode is set whatever the daemon answers
toggle_mode_optimistic(a, resp) ==
    [a EXCEPT !.mode = new_mode(a.mode),
              !.status = IF resp.ok THEN <<"Switched to ", new_mode(a.mode), " mode">>
                         ELSE <<"Error switching mode: ", resp.err>>]

toggle_mode(a, resp) ==
    IF resp.ok
    THEN [a EXCEPT !.mode = new_mode(a.mode),
                   !.status = <<"Switched to ", new_mode(a.mode), " mode">>]
    ELSE [a EXCEPT !.status = <<"Error switching mode: ", resp.err>>]

\* next_tab and prev_tab, before their refresh_data
next_tab(tab) ==
    CASE tab = "Proxies" -> "Rules"
      [] tab = "Rules" -> "Conns"
      [] tab = "Conns" -> "Proxies"

\* variant of prev_tab: the arms of next_tab with two of them exchanged
prev_tab_mixed(tab) ==
    CASE tab = "Proxies" -> "Conns"
      [] tab = "Conns" -> "Proxies"
      [] tab = "Rules" -> "Proxies"

prev_tab(tab) ==
    CASE tab = "Proxies" -> "Conns"
      [] tab = "Conns" -> "Rules"
      [] tab = "Rules" -> "Proxies"

\* move_up and move_down fetch the proxies only when the groups cursor moves
MovesGroupUp(a) ==
    a.current_tab = "Proxies" /\ a.focus = 0 /\ UnwrapOr(a.group_state, 0) > 0

MovesGroupDown(a) ==
    a.current_tab = "Proxies" /\ a.focus = 0
    /\ UnwrapOr(a.group_state, 0) < saturating_sub1(Len(a.groups))

\* the cursor after move_up / move_down of a list of len elements
up(state) == IF UnwrapOr(state, 0) > 0 THEN Some(UnwrapOr(state, 0) - 1) ELSE state
down(state, len) ==
    IF UnwrapOr(state, 0) < saturating_sub1(len) THEN Some(UnwrapOr(state, 0) + 1) ELSE state

\* the groups cursor moved to i: the members cursor goes to 0, the members
\* are derived again if GET /proxies answers
group_moved(a, i, resp) ==
    LET a1 == [a EXCEPT !.group_state = Some(i), !.proxy_state = Some(0)]
    IN  IF resp.ok THEN update_proxies_for_group(a1, resp.val) ELSE a1

move_up(a, resp) ==
    CASE a.current_tab = "Proxies" ->
           IF a.focus = 0
           THEN IF MovesGroupUp(a)
                THEN group_moved(a, UnwrapOr(a.group_state, 0) - 1, resp)
                ELSE a
           ELSE [a EXCEPT !.proxy_state = up(@)]
      [] a.current_tab = "Rules" -> [a EXCEPT !.rule_state = up(@)]
      [] a.current_tab = "Conns" -> [a EXCEPT !.conn_state = up(@)]

move_down(a, resp) ==
    CASE a.current_tab = "Proxies" ->
           IF a.focus = 0
           THEN IF MovesGroupDown(a)
                THEN group_moved(a, UnwrapOr(a.group_state, 0) + 1, resp)
                ELSE a
           ELSE [a EXCEPT !.proxy_state = down(@, Len(a.proxies))]
      [] a.current_tab = "Rules" -> [a EXCEPT !.rule_state = down(@, Len(a.rules))]
      [] a.current_tab = "Conns" -> [a EXCEPT !.conn_state = down(@, Len(a.conns))]

\* variant of toggle_focus: the focus is toggled on every tab
toggle_focus_any_tab(a) == [a EXCEPT !.focus = 1 - @]

toggle_focus(a) == IF a.current_tab = "Proxies" THEN [a EXCEPT !.focus = 1 - @] ELSE a

----------------------------------------------------------------------------
(* Drawing: ui() hands each cursor of the active tab to the list widget by *)
(* &mut.  The widget is the ratatui crate's, whose version src/ does not   *)
(* fix: it leaves the cursor alone ("keep"), or pulls a cursor beyond the  *)
(* last item back to it ("clamp"), or also unsets the cursor of an empty   *)
(* list ("clamp_or_unset").                                                *)

ListRenders == {"keep", "clamp", "clamp_or_unset"}

rendered(state, len, how) ==
    IF how = "keep" THEN state
    ELSE IF len = 0 THEN (IF how = "clamp_or_unset" THEN None ELSE state)
    ELSE IF state # None /\ Unwrap(state) >= len THEN Some(len - 1)
    ELSE state

ui(a, how) ==
    CASE a.current_tab = "Proxies" ->
           [a EXCEPT !.group_state = rendered(@, Len(a.groups), how),
                     !.proxy_state = rendered(@, Len(a.proxies), how)]
      [] a.current_tab = "Rules" -> [a EXCEPT !.rule_state = rendered(@, Len(a.rules), how)]
      [] a.current_tab = "Conns" -> [a EXCEPT !.conn_state = rendered(@, Len(a.conns), how)]

----------------------------------------------------------------------------
(* run_tui *)

NoEvent == [op |-> "none", calls |-> <<>>, drained |-> 0]
Event(op, calls) == [op |-> op, calls |-> calls, drained |-> 0]

Start ==
    /\ app = AppNew
    /\ chan = <<>>
    /\ tpc = "connect"
    /\ pc = "setup"
    /\ term = [raw |-> FALSE, alt |-> FALSE, result |-> "running"]
    /\ last = NoEvent
    /\ pub = <<>>
    /\ out = <<>>

Init == Start /\ daemon = DaemonQuiet
InitStream == Start /\ daemon = DaemonStream
InitLists == Start /\ daemon = DaemonLists
InitSelect == Start /\ daemon = DaemonSelect

\* main before its match on cli.command
InitCli ==
    /\ app = AppNew
    /\ chan = <<>>
    /\ tpc = "connect"
    /\ pc = "main"
    /\ term = [raw |-> FALSE, alt |-> FALSE, result |-> "running"]
    /\ last = NoEvent
    /\ pub = <<>>
    /\ out = <<>>
    /\ daemon = DaemonCli

Returned(result) == pc' = "done" /\ term' = [term EXCEPT !.result = result]

\* enable_raw_mode()?, execute!(EnterAlternateScreen, EnableMouseCapture)?, Terminal::new()?
Setup ==
    /\ pc = "setup"
    /\ \/ /\ pc' = "new"
          /\ term' = [term EXCEPT !.raw = TRUE, !.alt = TRUE]
       \/ Returned("err")
       \/ \E entered \in BOOLEAN :
             /\ pc' = "done"
             /\ term' = [raw |-> TRUE, alt |-> entered, result |-> "err"]
    /\ UNCHANGED <<app, chan, tpc, last, pub, daemon, out>>

\* refresh_data up to its while loop; the loop and the fetch of the tab follow
BeginRefresh(op, a) ==
    \E config \in get_config :
       /\ app' = refresh_mode(a, config)
       /\ last' = Event(op, <<Call("GET", <<"/configs">>, "", config)>>)
       /\ pc' = "drain"
       /\ UNCHANGED <<chan, tpc, term, pub, daemon, out>>

\* App::new
New == pc = "new" /\ BeginRefresh("new", app)

\* while let Ok(traffic) = self.traffic_rx.try_recv(): a sample is queued
DrainRecv ==
    /\ pc = "drain"
    /\ chan # <<>>
    /\ app' = receive_traffic(app, Head(chan))
    /\ chan' = Tail(chan)
    /\ last' = [last EXCEPT !.drained = IF @ < daemon.burst THEN @ + 1 ELSE @]
    /\ UNCHANGED <<tpc, pc, term, pub, daemon, out>>

Fetched(a, path, resp) ==
    /\ app' = a
    /\ last' = [last EXCEPT !.calls = Append(@, Call("GET", path, "", resp))]

\* variant of DrainEnd: recv() in place of try_recv(), which returns without
\* a sample only when the sender is gone
DrainEndOnDisconnect ==
    /\ pc = "drain"
    /\ chan = <<>>
    /\ tpc = "ended"
    /\ \/ /\ app.current_tab = "Proxies"
          /\ \E resp \in get_proxies : Fetched(refresh_proxies(app, resp), <<"/proxies">>, resp)
       \/ /\ app.current_tab = "Rules"
          /\ \E resp \in get_rules : Fetched(refresh_rules(app, resp), <<"/rules">>, resp)
       \/ /\ app.current_tab = "Conns"
          /\ \E resp \in get_connections :
                Fetched(refresh_conns(app, resp), <<"/connections">>, resp)
    /\ pc' = "draw"
    /\ pub' = <<>>
    /\ UNCHANGED <<chan, tpc, term, daemon, out>>

\* try_recv finds the channel empty: the loop ends, the tab is fetched
DrainEnd ==
    /\ pc = "drain"
    /\ chan = <<>>
    /\ \/ /\ app.current_tab = "Proxies"
          /\ \E resp \in get_proxies : Fetched(refresh_proxies(app, resp), <<"/proxies">>, resp)
       \/ /\ app.current_tab = "Rules"
          /\ \E resp \in get_rules : Fetched(refresh_rules(app, resp), <<"/rules">>, resp)
       \/ /\ app.current_tab = "Conns"
          /\ \E resp \in get_connections :
                Fetched(refresh_conns(app, resp), <<"/connections">>, resp)
    /\ pc' = "draw"
    /\ pub' = <<>>
    /\ UNCHANGED <<chan, tpc, term, daemon, out>>

\* terminal.draw(|f| ui(f, &mut app))?
Draw ==
    /\ pc = "draw"
    /\ \/ /\ \E how \in ListRenders : app' = ui(app, how)
          /\ pc' = "poll"
          /\ last' = NoEvent
          /\ UNCHANGED term
       \/ /\ Returned("err")
          /\ UNCHANGED <<app, last>>
    /\ UNCHANGED <<chan, tpc, pub, daemon, out>>

\* a handler that is over when it returns: the loop goes on to draw
Handled(op, a, calls) ==
    /\ app' = a
    /\ last' = Event(op, calls)
    /\ pc' = "draw"
    /\ UNCHANGED <<chan, tpc, term, pub, daemon, out>>

\* event::poll(100 ms)? or event::read()? fails
PollFail ==
    /\ pc = "poll"
    /\ Returned("err")
    /\ UNCHANGED <<app, chan, tpc, last, pub, daemon, out>>

\* no event within 100 ms
PollTimeout == pc = "poll" /\ Handled("timeout", app, <<>>)

\* an event that is no key press, or a key no arm matches
KeyOther == pc = "poll" /\ Handled("other", app, <<>>)

\* variant of KeyQuit: the overlay does not intercept the key
KeyQuitAlways ==
    /\ pc = "poll"
    /\ pc' = "restore"
    /\ last' = Event("q", <<>>)
    /\ UNCHANGED <<app, chan, tpc, term, pub, daemon, out>>

\* KeyCode::Char('q') | KeyCode::Esc
KeyQuit ==
    /\ pc = "poll"
    /\ IF app.show_help
       THEN Handled("q", [app EXCEPT !.show_help = FALSE], <<>>)
       ELSE /\ pc' = "restore"
            /\ last' = Event("q", <<>>)
            /\ UNCHANGED <<app, chan, tpc, term, pub, daemon, out>>

\* KeyCode::Char('?')
KeyHelp == pc = "poll" /\ Handled("?", [app EXCEPT !.show_help = ~@], <<>>)

\* KeyCode::Char('1'), Char('2'), Char('3')
KeyDigit ==
    /\ pc = "poll"
    /\ \E key \in {"1", "2", "3"} :
          LET tab == CASE key = "1" -> "Proxies" [] key = "2" -> "Rules" [] key = "3" -> "Conns"
          IN  BeginRefresh(key, [app EXCEPT !.current_tab = tab])

\* KeyCode::Tab
KeyTab == pc = "poll" /\ Handled("tab", IF app.show_help THEN app ELSE toggle_focus(app), <<>>)

\* KeyCode::Left | KeyCode::Char('h')
KeyLeft ==
    /\ pc = "poll"
    /\ IF app.show_help THEN Handled("left", app, <<>>)
       ELSE IF app.current_tab = "Proxies" /\ app.focus = 1
            THEN Handled("left", [app EXCEPT !.focus = 0], <<>>)
            ELSE BeginRefresh("left", [app EXCEPT !.current_tab = prev_tab(@)])

\* KeyCode::Right | KeyCode::Char('l')
KeyRight ==
    /\ pc = "poll"
    /\ IF app.show_help THEN Handled("right", app, <<>>)
       ELSE IF app.current_tab = "Proxies" /\ app.focus = 0
            THEN Handled("right", [app EXCEPT !.focus = 1], <<>>)
            ELSE BeginRefresh("right", [app EXCEPT !.current_tab = next_tab(@)])

\* KeyCode::Up | KeyCode::Char('k')
KeyUp ==
    /\ pc = "poll"
    /\ IF app.show_help THEN Handled("up", app, <<>>)
       ELSE IF MovesGroupUp(app)
            THEN \E resp \in get_proxies :
                    Handled("up", move_up(app, resp), <<Call("GET", <<"/proxies">>, "", resp)>>)
            ELSE Handled("up", move_up(app, Err("not sent")), <<>>)

\* KeyCode::Down | KeyCode::Char('j')
KeyDown ==
    /\ pc = "poll"
    /\ IF app.show_help THEN Handled("down", app, <<>>)
       ELSE IF MovesGroupDown(app)
            THEN \E resp \in get_proxies :
                    Handled("down", move_down(app, resp), <<Call("GET", <<"/proxies">>, "", resp)>>)
            ELSE Handled("down", move_down(app, Err("not sent")), <<>>)

\* KeyCode::Enter
KeyEnter ==
    /\ pc = "poll"
    /\ IF app.show_help THEN Handled("enter", [app EXCEPT !.show_help = FALSE], <<>>)
       ELSE IF app.current_tab = "Proxies" /\ app.focus = 1 /\ CanSelect(app)
            THEN \E sent \in select_proxy_result :
                    LET put == Call("PUT", <<"/proxies/", Unwrap(app.current_group).name>>,
                                    At(app.proxies, Unwrap(app.proxy_state))[1], sent)
                    IN  IF sent.ok
                        THEN \E resp \in get_proxies :
                                Handled("enter", select_proxy(app, sent, resp),
                                        <<put, Call("GET", <<"/proxies">>, "", resp)>>)
                        ELSE Handled("enter", select_proxy(app, sent, Err("not sent")), <<put>>)
            ELSE Handled("enter", app, <<>>)

\* variant of KeyTest: the probe is made from the groups pane too
KeyTestAnyFocus ==
    /\ pc = "poll"
    /\ IF app.show_help THEN Handled("t", app, <<>>)
       ELSE IF app.current_tab = "Proxies" /\ CanTest(app)
            THEN \E resp \in test_delay :
                    Handled("t", test_selected_delay(app, resp),
                            <<DelayCall(At(app.proxies, Unwrap(app.proxy_state))[1], resp)>>)
            ELSE Handled("t", app, <<>>)

\* KeyCode::Char('t')
KeyTest ==
    /\ pc = "poll"
    /\ IF app.show_help THEN Handled("t", app, <<>>)
       ELSE IF app.current_tab = "Proxies" /\ app.focus = 1 /\ CanTest(app)
            THEN \E resp \in test_delay :
                    Handled("t", test_selected_delay(app, resp),
                            <<DelayCall(At(app.proxies, Unwrap(app.proxy_state))[1], resp)>>)
            ELSE Handled("t", app, <<>>)

\* KeyCode::Char('r')
KeyRefresh ==
    /\ pc = "poll"
    /\ IF app.show_help THEN Handled("r", app, <<>>) ELSE BeginRefresh("r", app)

\* KeyCode::Char('m')
KeyMode ==
    /\ pc = "poll"
    /\ IF app.show_help THEN Handled("m", app, <<>>)
       ELSE \E resp \in update_mode :
               Handled("m", toggle_mode(app, resp),
                       <<Call("PATCH", <<"/configs">>, new_mode(app.mode), resp)>>)

\* disable_raw_mode()?, execute!(LeaveAlternateScreen, DisableMouseCapture)?, show_cursor()?
Restore ==
    /\ pc = "restore"
    /\ pc' = "done"
    /\ \/ term' = [raw |-> FALSE, alt |-> FALSE, result |-> "ok"]
       \/ term' = [term EXCEPT !.result = "err"]
       \/ \E left \in BOOLEAN : term' = [raw |-> FALSE, alt |-> ~left, result |-> "err"]
    /\ UNCHANGED <<app, chan, tpc, last, pub, daemon, out>>

----------------------------------------------------------------------------
(* The traffic thread *)

\* run_tui has returned: the receiver is dropped
Disconnected == pc = "done"

\* connect(&ws_url)
Connect ==
    /\ tpc = "connect"
    /\ tpc' \in {"read", "sleep"}
    /\ UNCHANGED <<app, chan, pc, term, last, pub, daemon, out>>

\* variant of ReadSample: the thread writes the sample into App itself
ReadSampleShared ==
    /\ tpc = "read"
    /\ \E traffic \in daemon.samples : app' = [app EXCEPT !.traffic = traffic]
    /\ UNCHANGED <<chan, tpc, pc, term, last, pub, daemon, out>>

\* socket.read() gives a text or binary message that decodes: traffic_tx.send
ReadSample ==
    /\ tpc = "read"
    /\ \E traffic \in daemon.samples :
          IF Disconnected
          THEN UNCHANGED <<chan, pub>>
          ELSE /\ Len(chan) < daemon.burst
               /\ chan' = Append(chan, traffic)
               /\ pub' = IF Len(pub) < daemon.burst THEN Append(pub, traffic)
                         ELSE Append(Tail(pub), traffic)
    /\ UNCHANGED <<app, tpc, pc, term, last, daemon, out>>

\* socket.read() gives a message of another kind, or one that does not decode
ReadOther ==
    /\ tpc = "read"
    /\ UNCHANGED vars

\* variant of ReadFail: the thread returns when the stream breaks
ReadFailEnds ==
    /\ tpc = "read"
    /\ tpc' = "ended"
    /\ UNCHANGED <<app, chan, pc, term, last, pub, daemon, out>>

\* socket.read() fails: the stream is closed or broken
ReadFail ==
    /\ tpc = "read"
    /\ tpc' = "sleep"
    /\ UNCHANGED <<app, chan, pc, term, last, pub, daemon, out>>

\* thread::sleep(3 s)
Sleep ==
    /\ tpc = "sleep"
    /\ tpc' = "connect"
    /\ UNCHANGED <<app, chan, pc, term, last, pub, daemon, out>>

TrafficThread == Connect \/ ReadSample \/ ReadOther \/ ReadFail \/ Sleep

----------------------------------------------------------------------------
(* main: the match on cli.command.  A one-shot command fetches, prints and *)
(* returns.  resp.proxies is a HashMap: iter() visits it in an order that  *)
(* the program does not choose, any order of its keys.                     *)

\* the orders in which iter() can visit the keys S
Orders(S) ==
    {order \in [1..Cardinality(S) -> S] :
        \A i, j \in 1..Cardinality(S) : order[i] = order[j] => i = j}

\* a command is over: main returns
Main(op, calls, lines, result) ==
    /\ pc = "main"
    /\ Returned(result)
    /\ last' = Event(op, calls)
    /\ out' = out \o lines
    /\ UNCHANGED <<app, chan, tpc, pub, daemon>>

\* the lines Commands::Proxies prints for one group
GroupBlock(name, proxy) ==
    << <<"\n[", name, "] (", proxy.proxy_type, ")">> >>
    \o (IF proxy.now # None THEN << <<"  Current: ", Unwrap(proxy.now)>> >> ELSE <<>>)
    \o << <<"  Available:">> >>
    \o [i \in 1..Len(proxy.all) |-> <<"    - ", proxy.all[i]>>]

RECURSIVE GroupBlocks(_, _)
GroupBlocks(order, proxies) ==
    IF order = <<>> THEN <<>>
    ELSE GroupBlock(Head(order), proxies[Head(order)]) \o GroupBlocks(Tail(order), proxies)

\* Some(Commands::Proxies)
CmdProxies ==
    \E resp \in get_proxies :
       LET call == Call("GET", <<"/proxies">>, "", resp) IN
       IF resp.ok
       THEN \E order \in Orders({n \in DOMAIN resp.val :
                                    resp.val[n].proxy_type = "Selector"
                                    \/ resp.val[n].proxy_type = "URLTest"}) :
               Main("proxies", <<call>>, GroupBlocks(order, resp.val), "ok")
       ELSE Main("proxies", <<call>>, <<>>, "err")

\* Some(Commands::Rules)
CmdRules ==
    \E resp \in get_rules :
       LET call == Call("GET", <<"/rules">>, "", resp) IN
       IF resp.ok
       THEN Main("rules", <<call>>,
                 << <<"Rules (">> \o Display(Len(resp.val)) \o <<"):">> >>
                 \o [idx \in 1..Len(resp.val) |->
                        <<PadLeft(idx, 4), ". [", PadRight(resp.val[idx].rule_type, 12), "] ",
                          PadRight(resp.val[idx].payload, 40), " → ", resp.val[idx].proxy>>],
                 "ok")
       ELSE Main("rules", <<call>>, <<>>, "err")

\* the line Commands::Groups prints for one group
GroupLine(name, proxy) ==
    <<"  [", PadRight(proxy.proxy_type, 12), "] ", PadRight(name, 20), " → ",
      UnwrapOr(proxy.now, "N/A")>>

\* Some(Commands::Groups)
CmdGroups ==
    \E resp \in get_proxies :
       LET call == Call("GET", <<"/proxies">>, "", resp) IN
       IF resp.ok
       THEN \E groups \in Orders({n \in DOMAIN resp.val : IsGroupKind(resp.val[n])}) :
               Main("groups", <<call>>,
                    << <<"Proxy Groups (">> \o Display(Len(groups)) \o <<"):">> >>
                    \o [i \in 1..Len(groups) |-> GroupLine(groups[i], resp.val[groups[i]])],
                    "ok")
       ELSE Main("groups", <<call>>, <<>>, "err")

\* Some(Commands::Version)
CmdVersion ==
    \E resp \in get_version :
       LET call == Call("GET", <<"/version">>, "", resp) IN
       IF resp.ok
       THEN Main("version", <<call>>, << <<"Clash version: ", resp.val>> >>, "ok")
       ELSE Main("version", <<call>>, <<>>, "err")

\* Some(Commands::Tui) | None
CmdTui ==
    /\ pc = "main"
    /\ pc' = "setup"
    /\ UNCHANGED <<app, chan, tpc, term, last, pub, daemon, out>>

Key ==
    \/ KeyQuit \/ KeyHelp \/ KeyDigit \/ KeyTab \/ KeyLeft \/ KeyRight \/ KeyUp \/ KeyDown
    \/ KeyEnter \/ KeyTest \/ KeyRefresh \/ KeyMode \/ KeyOther

RunTui ==
    \/ Setup \/ New \/ DrainRecv \/ DrainEnd \/ Draw \/ PollFail \/ PollTimeout \/ Key
    \/ Restore

Next == RunTui \/ TrafficThread

\* every event, every step of the traffic thread
Spec == Init /\ [][Next]_vars

\* a user who only refreshes, switches tabs by digit and quits, beside a busy stream
NextStream ==
    \/ Setup \/ New \/ DrainRecv \/ DrainEnd \/ Draw \/ PollFail \/ PollTimeout
    \/ KeyRefresh \/ KeyDigit \/ KeyQuit \/ Restore
    \/ TrafficThread

SpecStream == InitStream /\ [][NextStream]_vars

\* the same, with the traffic thread scheduled while the process lives: its
\* sleep ends and its connect returns
SpecThread ==
    /\ SpecStream
    /\ WF_vars(Sleep /\ pc # "done")
    /\ WF_vars(Connect /\ pc # "done")

\* the same, with run_tui scheduled too: each try_recv of a drain returns,
\* a frame that is due is drawn, and the poll returns after 100 ms when no
\* event arrives
SpecDrain ==
    /\ SpecThread
    /\ WF_vars(DrainRecv \/ DrainEnd)
    /\ WF_vars(Draw)
    /\ WF_vars(PollTimeout)

\* a user who moves through lists that change between fetches, while the
\* traffic thread is not scheduled
NextLists ==
    \/ Setup \/ New \/ DrainEnd \/ Draw \/ PollFail \/ PollTimeout
    \/ KeyDigit \/ KeyTab \/ KeyLeft \/ KeyRight \/ KeyUp \/ KeyDown
    \/ KeyEnter \/ KeyRefresh \/ KeyQuit \/ Restore

SpecLists == InitLists /\ [][NextLists]_vars

\* a user who selects members and probes them, with the help overlay at hand,
\* while the traffic thread is not scheduled
NextSelect ==
    \/ Setup \/ New \/ DrainEnd \/ Draw \/ PollFail
    \/ KeyHelp \/ KeyTab \/ KeyLeft \/ KeyRight \/ KeyUp \/ KeyDown
    \/ KeyEnter \/ KeyTest \/ KeyQuit \/ Restore

SpecSelect == InitSelect /\ [][NextSelect]_vars

\* the command line: a one-shot command, or a session in which the user
\* refreshes, switches tabs by digit and quits
NextCli ==
    \/ CmdProxies \/ CmdRules \/ CmdGroups \/ CmdVersion \/ CmdTui
    \/ Setup \/ New \/ DrainEnd \/ Draw \/ PollFail
    \/ KeyDigit \/ KeyRefresh \/ KeyQuit \/ Restore

SpecCli == InitCli /\ [][NextCli]_vars

----------------------------------------------------------------------------
(* Claims *)

\* run_tui is between two events: the last handler is over, the next not begun
BetweenEvents == pc \in {"draw", "poll"}

\* a cursor is unset or an index into its list
CursorOk(state, list) == state = None \/ InRange(Unwrap(state), list)

\* the last event moved the groups cursor (only then do Up and Down fetch)
GroupMoved == pc = "draw" /\ last.op \in {"up", "down"} /\ last.calls # <<>>

MemberNames(a) == [i \in 1..Len(a.proxies) |-> a.proxies[i][1]]

\* C1: in every reachable state each of the four cursors (groups, members,
\* rules, connections) is unset or an index i with 0 <= i < the length of
\* its list; a cursor over an empty list is unset.
C1_CursorsValid ==
    /\ CursorOk(app.group_state, app.groups)
    /\ CursorOk(app.proxy_state, app.proxies)
    /\ CursorOk(app.rule_state, app.rules)
    /\ CursorOk(app.conn_state, app.conns)

\* C2: after a move of the groups cursor, whether or not its fetch succeeds,
\* the current-group record and the member list are those of the group now
\* under the groups cursor, and the members cursor is 0 when that list is
\* not empty.
C2_MembersFollowGroupCursor ==
    GroupMoved =>
        /\ InRange(Unwrap(app.group_state), app.groups)
        /\ app.current_group # None
        /\ Unwrap(app.current_group).name = At(app.groups, Unwrap(app.group_state))
        /\ MemberNames(app) = Unwrap(app.current_group).all
        /\ (app.proxies # <<>> => app.proxy_state = Some(0))

\* C4: the channel is single-slot: in every reachable state it holds at most
\* one pending sample (a send while one is pending replaces it).
C4_SingleSlot == Len(chan) <= 1

\* the next mode as the claim C7 has it: every mode outside the cycle counts as Rule
C7_ClaimedNext(mode) ==
    CASE mode = "Global" -> "Direct"
      [] mode = "Direct" -> "Rule"
      [] OTHER -> "Global"

\* C7: the mode Cycle mode sends is a function of the local mode: Rule gives
\* Global, Global gives Direct, Direct gives Rule, and every other mode string
\* (the initial "Unknown" too) gives Global.
C7_NextModeAsClaimed ==
    [][(last'.op = "m" /\ last'.calls # <<>> /\ pc = "poll")
          => last'.calls[1].req[3] = C7_ClaimedNext(app.mode)]_vars

\* C3: in the step that ends the drain of a refresh, the queue is empty and,
\* if the traffic thread sent k >= 1 samples since the previous drain, the
\* displayed throughput is the last of them; while it has sent none (k = 0)
\* no step changes the displayed throughput.  The answers of GET /configs
\* and of the fetch of the tab are free.
C3_DrainShowsLatest ==
    [][ /\ (pc = "drain" /\ pc' = "draw") =>
              /\ chan' = <<>>
              /\ pub # <<>> => app'.traffic = pub[Len(pub)]
        /\ (pub = <<>> /\ pub' = <<>>) => app'.traffic = app.traffic ]_vars

\* three samples were queued, the older two differ from the last, both
\* fetches of the refresh failed
C3_Witness ==
    /\ pc = "draw" /\ last.op = "r" /\ last.drained = 3
    /\ Len(last.calls) = 2 /\ ~last.calls[1].ok /\ ~last.calls[2].ok
    /\ app.traffic = [up |-> 2, down |-> 20]

\* C5: the traffic thread is always at connect, read or sleep and always has
\* a next step; a failed connect and a failed read lead to sleep and nowhere
\* else, sleep leads to connect, a message that does not decode and a send
\* that fails leave it reading; none of its steps changes run_tui's position
\* or result; and while the process lives a sleeping thread connects again.
C5_ThreadNeverEnds ==
    /\ [](tpc \in {"connect", "read", "sleep"} /\ ENABLED TrafficThread)
    /\ [][ /\ (tpc = "connect" /\ tpc' # "connect") => tpc' \in {"read", "sleep"}
           /\ (tpc = "read" /\ tpc' # "read") => tpc' = "sleep"
           /\ (tpc = "sleep" /\ tpc' # "sleep") => tpc' = "connect"
           /\ tpc' # tpc => (pc' = pc /\ term' = term) ]_vars
    /\ (tpc = "sleep") ~> (tpc = "connect" \/ pc = "done")

\* the thread sleeps after a failure while a sample it sent is still queued
C5_Witness == tpc = "sleep" /\ chan # <<>> /\ pc = "poll"

\* C6: a step of the traffic thread leaves every field of App unchanged, and
\* with it run_tui's position; the displayed throughput changes only in
\* run_tui's drain, by a sample taken from the channel.
C6_ThreadLeavesAppAlone ==
    [][ /\ (TrafficThread \/ tpc' # tpc \/ Len(chan') > Len(chan)) =>
              (app' = app /\ pc' = pc /\ term' = term)
        /\ app'.traffic # app.traffic =>
              (pc = "drain" /\ chan # <<>> /\ app'.traffic = Head(chan) /\ tpc' = tpc) ]_vars

\* the thread sent a sample while run_tui was in the middle of a drain
C6_Witness ==
    /\ pc = "drain" /\ last.drained = 0 /\ chan # <<>> /\ tpc = "sleep"
    /\ app.traffic = [up |-> 0, down |-> 0] /\ app.groups # <<>>

\* the lists, the current group and the cursors
Lists(a) ==
    << a.groups, a.proxies, a.current_group, a.rules, a.conns,
       a.group_state, a.proxy_state, a.rule_state, a.conn_state >>

ModeSent == pc = "poll" /\ last'.op = "m" /\ last'.calls # <<>>

\* C8: when the set-mode request succeeds the local mode is the mode sent;
\* when it fails the local mode is unchanged and the status reports the
\* error; either way tab, focus, lists and cursors are unchanged.
C8_ModeFollowsRequest ==
    [][ ModeSent =>
          /\ last'.calls[1].req[1] = "PATCH"
          /\ last'.calls[1].ok => app'.mode = last'.calls[1].req[3]
          /\ ~last'.calls[1].ok =>
                (app'.mode = app.mode /\ Head(app'.status) = "Error switching mode: ")
          /\ app'.current_tab = app.current_tab
          /\ app'.focus = app.focus
          /\ Lists(app') = Lists(app) ]_vars

\* a set-mode request failed after an earlier one had succeeded
C8_Witness ==
    /\ pc = "draw" /\ last.op = "m" /\ last.calls # <<>> /\ ~last.calls[1].ok
    /\ app.mode = "Global" /\ app.groups # <<>>

\* C9: when the fetch of the active tab fails in a refresh, the lists, the
\* current group and the cursors are as they were when the refresh began
\* (no step of a refresh before the fetch changes them), the status is an
\* error description and run_tui goes on to draw.
C9_FailedFetchKeepsLists ==
    [][ /\ (pc' = "drain") => Lists(app') = Lists(app)
        /\ (pc = "drain" /\ pc' # "drain" /\ ~last'.calls[Len(last'.calls)].ok) =>
              /\ Lists(app') = Lists(app)
              /\ Head(app'.status) = "Error: "
              /\ pc' = "draw" ]_vars

\* GET /rules failed while rules were shown with a cursor
C9_Witness ==
    /\ pc = "draw" /\ Len(last.calls) = 2 /\ ~last.calls[2].ok
    /\ app.current_tab = "Rules" /\ app.rules # <<>> /\ app.rule_state # None
    /\ app.groups # <<>>

\* the session is running: App exists or is being made, run_tui is in its loop
Running == pc \in {"new", "drain", "draw", "poll"}

QuitWithHelp == pc = "poll" /\ last'.op = "q" /\ app.show_help
QuitNoHelp == pc = "poll" /\ last'.op = "q" /\ ~app.show_help

\* a daemon call of this step failed
CallFailed ==
    /\ Len(last'.calls) > 0
    /\ last'.calls # last.calls
    /\ ~last'.calls[Len(last'.calls)].ok

\* C10 as claimed: the session ends only on a Quit/Escape received while the
\* help overlay is hidden; with the overlay visible Quit/Escape hides it and
\* the session continues.
C10_EndsOnlyOnQuit ==
    [][ /\ (Running /\ ~Running') => QuitNoHelp
        /\ QuitWithHelp => (~app'.show_help /\ Running') ]_vars

\* C10 amended: the session ends only on a Quit/Escape received while the
\* overlay is hidden or when drawing, polling or reading the terminal fails;
\* with the overlay visible Quit/Escape hides it and the session continues;
\* no step in which a daemon call fails and no step of the traffic thread
\* ends the session.
C10_EndsOnQuitOrTerminalFailure ==
    [][ /\ (Running /\ ~Running') =>
              \/ QuitNoHelp /\ pc' = "restore"
              \/ /\ pc \in {"draw", "poll"} /\ pc' = "done"
                 /\ term'.result = "err" /\ last' = last /\ app' = app
        /\ QuitWithHelp => (~app'.show_help /\ pc' = "draw")
        /\ (Running /\ CallFailed) => Running'
        /\ (Running /\ tpc' # tpc) => Running' ]_vars

\* Quit was handled while the overlay was visible: the loop draws again
C10_Witness == pc = "draw" /\ last.op = "q" /\ ~app.show_help /\ app.groups # <<>>

\* the daemon calls made in this step
NewCalls ==
    CASE pc = "drain" -> SubSeq(last'.calls, Len(last.calls) + 1, Len(last'.calls))
      [] pc \in {"new", "poll"} -> last'.calls
      [] OTHER -> <<>>

IsSelectRequest(c) == c.req[1] = "PUT" /\ Head(c.req[2]) = "/proxies/"
IsDelayRequest(c) == c.req[1] = "GET" /\ Len(c.req[2]) > 2 /\ c.req[2][3] = "/delay?url="

\* this step handles Enter (Select) or 't' (Test latency)
Selecting == pc = "poll" /\ last'.op = "enter"
Testing == pc = "poll" /\ last'.op = "t"

AtMembers(a) == a.current_tab = "Proxies" /\ a.focus = 1

\* C11 as claimed: a set-active-member or latency-probe request is sent only
\* in handling Select or Test latency received at (Proxies, Members); at every
\* other (tab, focus) those events send nothing and leave every field of the
\* session state as it was.
C11_SelectTestOnlyAtMembers ==
    [][ /\ \A i \in 1..Len(NewCalls) :
              /\ IsSelectRequest(NewCalls[i]) => (Selecting /\ AtMembers(app))
              /\ IsDelayRequest(NewCalls[i]) => (Testing /\ AtMembers(app))
        /\ ((Selecting \/ Testing) /\ ~AtMembers(app)) =>
              (last'.calls = <<>> /\ app' = app) ]_vars

\* C11 amended: such a request is sent only in handling Select or Test
\* latency received at (Proxies, Members) with the help overlay hidden; at
\* every other (tab, focus) those events send nothing and leave the session
\* state as it was, except that Select hides the help overlay if it is shown.
C11_SelectTestOnlyAtMembersOverlayAside ==
    [][ /\ \A i \in 1..Len(NewCalls) :
              /\ IsSelectRequest(NewCalls[i]) =>
                    (Selecting /\ AtMembers(app) /\ ~app.show_help)
              /\ IsDelayRequest(NewCalls[i]) =>
                    (Testing /\ AtMembers(app) /\ ~app.show_help)
        /\ ((Selecting \/ Testing) /\ ~AtMembers(app)) =>
              /\ last'.calls = <<>>
              /\ app' = IF Selecting THEN [app EXCEPT !.show_help = FALSE] ELSE app ]_vars

\* Test latency was handled in the groups pane with members on display
C11_Witness ==
    /\ pc = "draw" /\ last.op = "t" /\ last.calls = <<>>
    /\ app.current_tab = "Proxies" /\ app.focus = 0 /\ ~app.show_help
    /\ CanTest(app) /\ app.current_group # None

\* C12: every set-active-member request names the group under the groups
\* cursor (groups[groups cursor]) and the member under the members cursor,
\* whatever refreshes, cursor moves and failed fetches came before.
C12_SelectNamesGroupUnderCursor ==
    [][ \A i \in 1..Len(NewCalls) :
           IsSelectRequest(NewCalls[i]) =>
              /\ app.group_state # None
              /\ InRange(Unwrap(app.group_state), app.groups)
              /\ NewCalls[i].req[2] = <<"/proxies/", At(app.groups, Unwrap(app.group_state))>>
              /\ app.proxy_state # None
              /\ InRange(Unwrap(app.proxy_state), app.proxies)
              /\ NewCalls[i].req[3] = At(app.proxies, Unwrap(app.proxy_state))[1] ]_vars

\* this step handles Select and its set-active-member request succeeded
SelectSucceeded == Selecting /\ last'.calls # <<>> /\ last'.calls[1].ok

HasCall(calls, req) == \E i \in 1..Len(calls) : calls[i].req = req

\* C13: when the set-active-member request of Select succeeds, refreshAll is
\* performed (the mode is fetched, the traffic channel is drained, the
\* active tab is fetched) and, when the event has been handled, the status
\* line confirms the switch, naming the group and the member selected.
C13_SelectRefreshesAllAndConfirms ==
    [][ SelectSucceeded =>
          /\ HasCall(NewCalls, Request("GET", <<"/configs">>, ""))
          /\ HasCall(NewCalls, Request("GET", <<"/proxies">>, ""))
          /\ chan' = <<>>
          /\ app'.status = <<"Selected: ", last'.calls[1].req[2][2], " -> ",
                             last'.calls[1].req[3]>> ]_vars

\* this step handles Select and its set-active-member request failed
SelectFailed == Selecting /\ last'.calls # <<>> /\ ~last'.calls[1].ok

\* C14: when the set-active-member request of Select fails, the current
\* group with its active member, the lists and the cursors are as before, no
\* refresh is made (no other request is sent, the channel is not drained,
\* tab, focus, mode and throughput stay) and the status line is a non-empty
\* error string.
C14_FailedSelectChangesStatusOnly ==
    [][ SelectFailed =>
          /\ app'.current_group = app.current_group
          /\ Lists(app') = Lists(app)
          /\ Len(last'.calls) = 1 /\ IsSelectRequest(last'.calls[1])
          /\ chan' = chan
          /\ app' = [app EXCEPT !.status = app'.status]
          /\ Len(app'.status) = 2
          /\ app'.status[1] = "Error selecting proxy: " /\ app'.status[2] # "" ]_vars

\* Select of a member that is not the active one failed
C14_Witness ==
    /\ pc = "draw" /\ last.op = "enter" /\ Len(last.calls) = 1 /\ ~last.calls[1].ok
    /\ app.current_group # None /\ CanSelect(app)
    /\ Unwrap(app.current_group).now # Some(At(app.proxies, Unwrap(app.proxy_state))[1])
    /\ Head(app.status) = "Error selecting proxy: "

\* this step handles Test latency and the probe was sent
Probed == Testing /\ last'.calls # <<>>

\* what the probe of this step returned
ProbeFailed == last'.calls[1].delay = None
ProbeNonPositive == last'.calls[1].delay # None /\ Unwrap(last'.calls[1].delay) <= 0
ProbePositive == last'.calls[1].delay # None /\ Unwrap(last'.calls[1].delay) > 0

\* the latency displayed for the member under the members cursor of a
LatencyUnderCursor(a, cursor) == At(a.proxies, Unwrap(cursor))[2]

\* C15: after a latency probe that returns a non-positive value or fails,
\* the latency displayed for the probed member is the unknown sentinel (a
\* negative number), whatever it was before the probe.
C15_TimeoutShowsSentinel ==
    [][ (Probed /\ (ProbeFailed \/ ProbeNonPositive)) =>
           LatencyUnderCursor(app', app.proxy_state) < 0 ]_vars

\* the name of the member under the members cursor of a
NameUnderCursor(a) == At(a.proxies, Unwrap(a.proxy_state))[1]

\* C16 as claimed: after a latency probe of member <name> the status line is
\* exactly "<name>: timeout", both when the probe returns a non-positive value
\* and when the probe call itself fails.
C16_TimeoutStatus ==
    [][ (Probed /\ (ProbeFailed \/ ProbeNonPositive)) =>
           app'.status = <<NameUnderCursor(app), ": timeout">> ]_vars

\* C16 amended: after a latency probe of member <name> that returns a
\* non-positive value the status line is exactly "<name>: timeout"; when the
\* probe call itself fails the status line is "Error testing delay: "
\* followed by the non-empty description of the error.
C16_TimeoutOrErrorStatus ==
    [][ /\ (Probed /\ ProbeNonPositive) =>
              app'.status = <<NameUnderCursor(app), ": timeout">>
        /\ (Probed /\ ProbeFailed) =>
              /\ Len(app'.status) = 2
              /\ app'.status[1] = "Error testing delay: " /\ app'.status[2] # "" ]_vars

\* the probe of the second member returned 0
C16_Witness ==
    /\ pc = "draw" /\ last.op = "t" /\ last.calls # <<>>
    /\ last.calls[1].delay = Some(0)
    /\ app.proxy_state = Some(1)
    /\ app.status = <<"p2", ": timeout">>

\* C17: a latency probe that returns a positive value d sets the latency of
\* the member under the members cursor to d and, beside the status line,
\* changes nothing: not the latency of another member, not a list, a cursor,
\* the tab, the focus, the mode or the throughput; and the probe is the only
\* request of the step.
C17_PositiveProbeSetsOneLatency ==
    [][ (Probed /\ ProbePositive) =>
          /\ LatencyUnderCursor(app', app.proxy_state) = Unwrap(last'.calls[1].delay)
          /\ app' = [app EXCEPT !.proxies[Unwrap(app.proxy_state) + 1][2] =
                                     Unwrap(last'.calls[1].delay),
                                !.status = app'.status]
          /\ Len(last'.calls) = 1 /\ IsDelayRequest(last'.calls[1])
          /\ chan' = chan ]_vars

\* the probe of the second member returned 50 while the first displays 80
C17_Witness ==
    /\ pc = "draw" /\ last.op = "t" /\ last.calls # <<>>
    /\ last.calls[1].delay = Some(50)
    /\ app.proxy_state = Some(1)
    /\ app.proxies = << <<"p1", 80>>, <<"p2", 50>> >>

\* this step handles Up or Down with the help overlay hidden
MovingUp == pc = "poll" /\ last'.op = "up" /\ ~app.show_help
MovingDown == pc = "poll" /\ last'.op = "down" /\ ~app.show_help

\* the cursor that Up and Down move in a, and the list it runs over
MovedCursor(a) ==
    CASE a.current_tab = "Proxies" /\ a.focus = 0 -> a.group_state
      [] a.current_tab = "Proxies" /\ a.focus # 0 -> a.proxy_state
      [] a.current_tab = "Rules" -> a.rule_state
      [] a.current_tab = "Conns" -> a.conn_state

MovedList(a) ==
    CASE a.current_tab = "Proxies" /\ a.focus = 0 -> a.groups
      [] a.current_tab = "Proxies" /\ a.focus # 0 -> a.proxies
      [] a.current_tab = "Rules" -> a.rules
      [] a.current_tab = "Conns" -> a.conns

\* C18: Up and Down leave no cursor (groups, members, rules, connections) at
\* an index outside [0, len-1] of its list and do not wrap: Up at index 0 and
\* Down at index len-1 leave the cursor where it is, and over an empty list
\* the cursor stays unset; in every state in which the move is made.
C18_MovesStayInRange ==
    [][ (MovingUp \/ MovingDown) =>
          /\ CursorOk(app'.group_state, app'.groups)
          /\ CursorOk(app'.proxy_state, app'.proxies)
          /\ CursorOk(app'.rule_state, app'.rules)
          /\ CursorOk(app'.conn_state, app'.conns)
          /\ (MovingUp /\ MovedCursor(app) = Some(0)) => MovedCursor(app') = Some(0)
          /\ (MovingDown /\ MovedCursor(app) = Some(Len(MovedList(app)) - 1)) =>
                MovedCursor(app') = MovedCursor(app)
          /\ (MovedList(app) = <<>> /\ MovedCursor(app) = None) =>
                MovedCursor(app') = None ]_vars

\* names is a listing of the groups of snapshot snap: exactly its proxies of
\* kind Selector, URLTest or Fallback, each once, ascending by name
IsGroupListing(names, snap) ==
    LET kinds == {n \in DOMAIN snap : snap[n].proxy_type \in {"Selector", "URLTest", "Fallback"}}
    IN  /\ {names[i] : i \in 1..Len(names)} = kinds
        /\ Len(names) = Cardinality(kinds)
        /\ \A i \in 1..(Len(names) - 1) : StrLess(names[i], names[i + 1])

\* the names Commands::Groups printed, in the order of its lines
ListedByGroups(o) == [i \in 1..(Len(o) - 1) |-> o[i + 1][4][1]]

\* the names Commands::Proxies printed, in the order of its group headings
ListedByProxies(o) ==
    LET headings == SelectSeq(o, LAMBDA line : line[1] = "\n[")
    IN  [i \in 1..Len(headings) |-> headings[i][2]]

\* this step is a one-shot command whose fetch succeeded
Printed(op) == pc = "main" /\ last'.op = op /\ last'.calls[1].ok

\* C19: every group listing the program produces (the groups list after a
\* successful refresh of the Proxies tab, the output of the one-shot commands
\* groups and proxies) holds exactly the proxies of the daemon's snapshot of
\* kind Selector, URLTest or Fallback, each once, ascending by name.
C19_GroupListingsSorted ==
    [][ /\ (pc = "drain" /\ pc' = "draw" /\ app.current_tab = "Proxies"
              /\ last'.calls[Len(last'.calls)].ok) =>
              \E snap \in daemon.snapshots : IsGroupListing(app'.groups, snap)
        /\ Printed("groups") =>
              \E snap \in daemon.snapshots : IsGroupListing(ListedByGroups(out'), snap)
        /\ Printed("proxies") =>
              \E snap \in daemon.snapshots : IsGroupListing(ListedByProxies(out'), snap) ]_vars

\* v holds the elements of w, each as often as w holds it
IsPermutation(v, w) ==
    /\ Len(v) = Len(w)
    /\ \A i \in 1..Len(v) :
          Cardinality({j \in 1..Len(v) : v[j] = v[i]})
              = Cardinality({j \in 1..Len(w) : w[j] = v[i]})

\* C20: after a successful refresh of the Connections tab the displayed
\* list is a permutation of the fetched list in which no row starts earlier,
\* by comparison of the start strings, than the row after it.
C20_ConnsSortedByStartDesc ==
    [][ (pc = "drain" /\ pc' = "draw" /\ app.current_tab = "Conns"
          /\ last'.calls[Len(last'.calls)].ok) =>
          /\ \E resp \in daemon.conn_responses :
                IsPermutation(app'.conns, resp.connections)
          /\ \A i \in 1..(Len(app'.conns) - 1) :
                ~StrLess(app'.conns[i].start, app'.conns[i + 1].start) ]_vars

\* four connections were fetched: "10:00Z" is shown before "10:00:30Z", the
\* two that started at "09:59Z" last
C20_Witness ==
    /\ pc = "draw" /\ app.current_tab = "Conns"
    /\ Len(last.calls) = 2 /\ last.calls[2].ok
    /\ Len(app.conns) = 4
    /\ app.conns[1].start = "10:00Z" /\ app.conns[2].start = "10:00:30Z"
    /\ app.conns[3].start = "09:59Z" /\ app.conns[4].start = "09:59Z"

\* refresh_data, the match on current_tab: what the fetch can return, and
\* the refresh it is handed to
TabResults(tab) ==
    CASE tab = "Proxies" -> get_proxies
      [] tab = "Rules" -> get_rules
      [] tab = "Conns" -> get_connections

refresh_tab(a, resp) ==
    CASE a.current_tab = "Proxies" -> refresh_proxies(a, resp)
      [] a.current_tab = "Rules" -> refresh_rules(a, resp)
      [] a.current_tab = "Conns" -> refresh_conns(a, resp)

\* refresh_data while no sample is queued
refresh_data(a, config, resp) == refresh_tab(refresh_mode(a, config), resp)

\* this step ends a refresh that drained no sample, and config and resp are
\* answers the daemon can have given to its two fetches
RefreshedWith(config, resp) ==
    /\ pc = "drain" /\ pc' = "draw" /\ last.drained = 0
    /\ config.ok = last'.calls[1].ok
    /\ config.ok => config.val = app.mode
    /\ resp.ok = last'.calls[2].ok
    /\ app' = refresh_tab(app, resp)

\* C21: refreshAll is idempotent: the state in which a refresh ends is the
\* state in which a second refresh ends that starts at once, gets the same
\* answers from the daemon and finds no sample queued; every field of App
\* is the same (tab, focus, mode, lists, current group, cursors, throughput,
\* status).
C21_RefreshIdempotent ==
    [][ \A config \in get_config : \A resp \in TabResults(app.current_tab) :
           RefreshedWith(config, resp) => refresh_data(app', config, resp) = app' ]_vars

\* a refresh of the Proxies tab found three groups where one was shown, the
\* cursors already set
C21_Witness ==
    /\ pc = "draw" /\ last.op = "r" /\ Len(last.calls) = 2
    /\ last.calls[1].ok /\ last.calls[2].ok
    /\ app.current_tab = "Proxies" /\ Len(app.groups) = 3
    /\ app.group_state = Some(1) /\ app.proxy_state = Some(0)
    /\ Len(app.proxies) = 1

\* run_tui returns in this step, from its loop or after it
ReturnsFromLoop == pc \in {"draw", "poll"} /\ pc' = "done"
ReturnsAfterQuit == pc = "restore" /\ pc' = "done" /\ term'.result = "ok"

\* C22: on every path by which run_tui returns after it has put the terminal
\* into raw mode and the alternate screen (the normal quit, and a failure of
\* draw, of the event poll or of the event read inside the loop), raw mode
\* is off and the alternate screen is left when it returns.
C22_TerminalRestoredOnReturn ==
    [][ (ReturnsFromLoop \/ ReturnsAfterQuit) => (~term'.raw /\ ~term'.alt) ]_vars

Tabs == {"Proxies", "Rules", "Conns"}

\* switchTab as C23 has it
C23_Next(tab) ==
    CASE tab = "Proxies" -> "Rules" [] tab = "Rules" -> "Conns" [] tab = "Conns" -> "Proxies"
C23_Prev(tab) ==
    CASE tab = "Proxies" -> "Conns" [] tab = "Conns" -> "Rules" [] tab = "Rules" -> "Proxies"

\* this step switches the tab by Right or by Left and begins the refresh
SwitchesNext == pc = "poll" /\ last'.op = "right" /\ pc' = "drain"
SwitchesPrev == pc = "poll" /\ last'.op = "left" /\ pc' = "drain"

\* C23: next_tab maps Proxies to Rules, Rules to Connections, Connections to
\* Proxies and prev_tab the other way round; each undoes the other and three
\* applications of either return to the tab they began at; a step that
\* switches the tab applies them, and no step of the refresh that follows,
\* whatever the daemon answers, changes the tab.
C23_TabsCircular ==
    [][ /\ \A t \in Tabs :
              /\ next_tab(t) = C23_Next(t) /\ prev_tab(t) = C23_Prev(t)
              /\ prev_tab(next_tab(t)) = t /\ next_tab(prev_tab(t)) = t
              /\ next_tab(next_tab(next_tab(t))) = t
              /\ prev_tab(prev_tab(prev_tab(t))) = t
        /\ SwitchesNext => app'.current_tab = C23_Next(app.current_tab)
        /\ SwitchesPrev => app'.current_tab = C23_Prev(app.current_tab)
        /\ pc = "drain" => app'.current_tab = app.current_tab ]_vars

\* Left switched from Proxies to Connections and both fetches of the refresh failed
C23_Witness ==
    /\ pc = "draw" /\ last.op = "left" /\ Len(last.calls) = 2
    /\ ~last.calls[1].ok /\ ~last.calls[2].ok
    /\ app.current_tab = "Conns" /\ app.groups # <<>> /\ app.conns = <<>>

\* C24: the focus is always Groups (0) or Members (1), and it changes only
\* in handling an event received while the active tab is Proxies: Tab and
\* every other event handled on Rules or Connections leave it as it is.
C24_FocusChangesOnlyOnProxies ==
    /\ [](app.focus \in {0, 1})
    /\ [][ app'.focus # app.focus => (pc = "poll" /\ app.current_tab = "Proxies") ]_vars

\* Tab was handled on the Rules tab, reached with the focus on Members
C24_Witness ==
    /\ pc = "draw" /\ last.op = "tab" /\ ~app.show_help
    /\ app.current_tab = "Rules" /\ app.focus = 1

\* the addressable state: tab, focus, overlay
Place(a) == <<a.current_tab, a.focus, a.show_help>>

\* the place after an event as C25 has it: a function of the place before
\* and the key
C25_After(place, key) ==
    LET tab == place[1]
        focus == place[2]
        help == place[3]
    IN  CASE key = "?" -> <<tab, focus, ~help>>
          [] key \in {"q", "enter"} -> <<tab, focus, FALSE>>
          [] key = "1" -> <<"Proxies", focus, help>>
          [] key = "2" -> <<"Rules", focus, help>>
          [] key = "3" -> <<"Conns", focus, help>>
          [] key = "tab" -> IF ~help /\ tab = "Proxies" THEN <<tab, 1 - focus, help>> ELSE place
          [] key = "left" ->
               IF help THEN place
               ELSE IF tab = "Proxies" /\ focus = 1 THEN <<tab, 0, help>>
               ELSE <<C23_Prev(tab), focus, help>>
          [] key = "right" ->
               IF help THEN place
               ELSE IF tab = "Proxies" /\ focus = 0 THEN <<tab, 1, help>>
               ELSE <<C23_Next(tab), focus, help>>
          [] OTHER -> place

\* C25: the session starts at (Proxies, Groups) with the overlay hidden, and
\* the (tab, focus, overlay) in which the handling of an event ends is a
\* function of the (tab, focus, overlay) in which it began and of the key:
\* the step that receives the event moves as that function says, and no other
\* step (of the refresh that follows, of drawing, of the traffic thread)
\* moves at all, whatever the daemon answers and the stream delivers.
C25_PlaceFollowsEventsAlone ==
    /\ [](pc \in {"setup", "new"} => Place(app) = <<"Proxies", 0, FALSE>>)
    /\ [][ /\ pc = "poll" => Place(app') = C25_After(Place(app), last'.op)
           /\ pc # "poll" => Place(app') = Place(app) ]_vars

\* Right left the members pane of Proxies for Rules while GET /rules failed
C25_Witness ==
    /\ pc = "draw" /\ last.op = "right" /\ Len(last.calls) = 2 /\ ~last.calls[2].ok
    /\ Place(app) = <<"Rules", 1, FALSE>> /\ app.traffic # [up |-> 0, down |-> 0]

\* this step begins a refresh whose GET /configs failed
ModeFetchFailed == pc \in {"new", "poll"} /\ pc' = "drain" /\ ~last'.calls[1].ok

\* this step ends a refresh whose GET /configs had failed
EndsAfterModeFetchFailed == pc = "drain" /\ pc' # "drain" /\ ~last'.calls[1].ok

\* the request by which refresh_data fetches tab
TabRequest(tab) ==
    CASE tab = "Proxies" -> Request("GET", <<"/proxies">>, "")
      [] tab = "Rules" -> Request("GET", <<"/rules">>, "")
      [] tab = "Conns" -> Request("GET", <<"/connections">>, "")

\* C26: when GET /configs fails at the start of a refresh, the mode and the
\* status are left as they are and the refresh goes on: it ends only with
\* the channel drained and the fetch of the active tab made, and if that
\* fetch succeeds the status reports the load, not an error.
C26_ModeFetchFailureNotFatal ==
    [][ /\ ModeFetchFailed => (app'.mode = app.mode /\ app'.status = app.status)
        /\ (pc = "drain" /\ ~last.calls[1].ok) => app'.mode = app.mode
        /\ EndsAfterModeFetchFailed =>
              /\ pc' = "draw"
              /\ chan' = <<>>
              /\ Len(last'.calls) = 2
              /\ last'.calls[2].req = TabRequest(app.current_tab)
              /\ last'.calls[2].ok => Head(app'.status) = "Loaded " ]_vars

\* GET /configs failed after the mode had been fetched, a sample was drained
\* and the fetch of the tab succeeded
C26_Witness ==
    /\ pc = "draw" /\ Len(last.calls) = 2 /\ ~last.calls[1].ok /\ last.calls[2].ok
    /\ last.drained > 0 /\ app.mode = "rule" /\ Head(app.status) = "Loaded "

\* try_recv returns at once, with a sample or without
DrainCanStep == ENABLED (DrainRecv \/ DrainEnd)

LatestPublished(s) == pub # <<>> /\ pub[Len(pub)] = s

C29_OverlayIsModal ==
    [][ (pc = "poll" /\ app.show_help) =>
           /\ [app' EXCEPT !.show_help = app.show_help] = app
           /\ ~app'.show_help \/ UNCHANGED app
           /\ pc' # "drain"
           /\ last'.calls = <<>> ]_vars

\* tab and focus
TabFocus(a) == <<a.current_tab, a.focus>>

\* the Right key and the Left key on tab and focus, as C30 has them
C30_Right(tf) ==
    IF tf = <<"Proxies", 0>> THEN <<"Proxies", 1>> ELSE <<C23_Next(tf[1]), tf[2]>>
C30_Left(tf) ==
    IF tf = <<"Proxies", 1>> THEN <<"Proxies", 0>> ELSE <<C23_Prev(tf[1]), tf[2]>>

\* C30: with the overlay hidden Right moves the focus from Groups to Members
\* on (Proxies, Groups) and otherwise switches to the next tab, Left moves it
\* from Members to Groups on (Proxies, Members) and otherwise switches to the
\* previous tab, and from every reachable tab and focus Right and then Left
\* return to the tab and focus they began at.
C30_LeftUndoesRight ==
    /\ [][ (pc = "poll" /\ ~app.show_help) =>
              /\ last'.op = "right" => TabFocus(app') = C30_Right(TabFocus(app))
              /\ last'.op = "left" => TabFocus(app') = C30_Left(TabFocus(app)) ]_vars
    /\ []((pc = "poll" /\ ~app.show_help) =>
              C30_Left(C30_Right(TabFocus(app))) = TabFocus(app))

\* the displayed members are the `all` of the current-group record, and that
\* record is one the daemon gave in a snapshot; with no record, no members
MembersOfCurrentGroup(a) ==
    IF a.current_group = None THEN a.proxies = <<>>
    ELSE LET group == Unwrap(a.current_group)
         IN  /\ MemberNames(a) = group.all
             /\ \E snap \in daemon.snapshots : \E n \in DOMAIN snap : snap[n] = group

\* the set-active-member request c names the current group and one of its members
NamesMemberOfGroup(c, a) ==
    /\ a.current_group # None
    /\ LET group == Unwrap(a.current_group)
       IN  /\ c.req[2] = <<"/proxies/", group.name>>
           /\ \E i \in 1..Len(group.all) : group.all[i] = c.req[3]

\* C31: in every reachable state the names of the displayed members, in
\* order, are exactly the member list of the current-group record, both taken
\* from one fetched snapshot; so the member named in a set-active-member
\* request is a member of the group the request names; and a latency probe
\* leaves the names and their order as they were.
C31_MembersMatchCurrentGroup ==
    /\ [](MembersOfCurrentGroup(app))
    /\ [][ /\ \A i \in 1..Len(NewCalls) :
                 IsSelectRequest(NewCalls[i]) => NamesMemberOfGroup(NewCalls[i], app)
           /\ Probed => MemberNames(app') = MemberNames(app) ]_vars

\* a probe has given p2, which has no history in any snapshot, a latency,
\* and the members are still those of G1
C31_Witness ==
    /\ pc = "draw" /\ last.op = "t" /\ last.calls # <<>>
    /\ app.current_group # None /\ Unwrap(app.current_group).name = "G1"
    /\ Len(app.proxies) = 2 /\ app.proxies[2] = <<"p2", 50>>

====
